---- MODULE Spec2Model ----
(***************************************************************************)
(* A model of generate_videos.py: the VideoGenerator run (directory        *)
(* validation, output cleanup, audio discovery, the sequential task loop)  *)
(* and, inside each task, the duration probe with its retries and the      *)
(* greedy clip-selection loop of _generate_single.                         *)
(*                                                                         *)
(* Durations are exact numbers (integer ticks); the external tools         *)
(* (ffprobe, ffmpeg, the file system's deletions) are inputs whose         *)
(* outcome is chosen nondeterministically.                                 *)
(***************************************************************************)
EXTENDS Integers, Sequences, FiniteSets, TLC

\* ------------------------------------------------------------- bounds

\* num_videos: the number of generation tasks of a run.
NumVideos == 2
\* Largest duration (in ticks) ffprobe reports for a clip.
MaxDur == 2
\* Largest duration (in ticks) ffprobe reports for the audio track.
MaxTarget == 2
\* Sizes for the stand-alone walk of the selection loop (SpecPack).
PackClips == 3
PackMaxDur == 4
PackMaxTarget == 6

\* ------------------------------------------------- program constants

\* max_retries of _get_media_duration.
max_retries == 3

\* ------------------------------------------------------- environment

RequiredDirs == {"video", "audio", "output"}

\* The entries of the video directory, in the order glob('*') yields them.
VideoDirListing ==
    << [name |-> "notes.txt", suffix |-> ".txt"],
       [name |-> "a.MP4", suffix |-> ".MP4"],
       [name |-> "b.mov", suffix |-> ".mov"] >>

\* str.lower() on the suffixes that occur.
Lower(s) ==
    CASE s = ".MP4" -> ".mp4"
      [] s = ".MOV" -> ".mov"
      [] OTHER -> s

\* The suffix filter of the clip scan.
IsVideo(f) == Lower(f.suffix) \in {".mp4", ".mov", ".avi", ".mkv"}

\* What the output directory holds before the run, in the order iterdir()
\* yields it: a file, a directory and an entry that is neither (a FIFO, a
\* dangling link).
OutputDirListing ==
    << [name |-> "old.mp4", kind |-> "file", task |-> 0],
       [name |-> "cache", kind |-> "dir", task |-> 0],
       [name |-> "pipe", kind |-> "other", task |-> 0] >>

OldItems == { OutputDirListing[k] : k \in DOMAIN OutputDirListing }

\* The mp3 files the audio directory may hold.
Mp3Files == {"bgm.mp3"}

\* output_<task_num>.mp4
OutputFile(task_num) == [name |-> "output.mp4", kind |-> "file", task |-> task_num]

VARIABLES
    pc,             \* position of the program
    dirs,           \* which required directories exist
    audioFiles,     \* *.mp3 in the audio directory
    outDir,         \* entries of the output directory
    tempDirs,       \* temporary directories that exist on disk
    success,        \* log['success']
    failures,       \* log['failures']
    warnings,       \* log['warnings']
    used_clips,     \* log['used_clips']
    temp_files,     \* log['temp_files']
    audio_path,     \* the audio file chosen by generate_all
    i,              \* loop variable of generate_all
    started,        \* the calls of _generate_single made so far, in order
    audio_duration, \* local of _generate_single
    gpos,           \* position of the clip scan in the directory listing
    video_files,    \* local of _generate_single: <<(file name, dur)>>
    selected,       \* local of _generate_single: the plan
    total_dur,      \* local of _generate_single
    idx,            \* position of the selection loop in video_files
    attempt,        \* attempts made by the running _get_media_duration
    sleeps,         \* backoff waits made by the running _get_media_duration
    probeStatus,    \* idle | running | ok | RuntimeError | ValueError
    probeValue,     \* the duration the probe returned
    exitCode        \* -1 while running, then the process exit status

vars ==
    << pc, dirs, audioFiles, outDir, tempDirs, success, failures, warnings,
       used_clips, temp_files, audio_path, i, started, audio_duration, gpos,
       video_files, selected, total_dur, idx, attempt, sleeps, probeStatus,
       probeValue, exitCode >>

envVars == << dirs, audioFiles >>
logVars == << success, failures, warnings, used_clips, temp_files >>
probeVars == << attempt, sleeps, probeStatus, probeValue >>
packVars == << video_files, selected, total_dur, idx >>

NoPath == "none"

\* ----------------------------------------------------------- helpers

RECURSIVE SumSeq(_)
SumSeq(s) == IF s = << >> THEN 0 ELSE Head(s) + SumSeq(Tail(s))

Min(a, b) == IF a <= b THEN a ELSE b

Range(s) == { s[k] : k \in DOMAIN s }

\* All orders of the sequence s (random.shuffle may produce any of them).
Orders(s) ==
    { p \in [DOMAIN s -> Range(s)] :
        \A k \in DOMAIN s : \E j \in DOMAIN s : p[j] = s[k] }

\* ------------------------------------------------------ construction

Init ==
    /\ pc = "construct"
    /\ dirs \in [RequiredDirs -> BOOLEAN]
    /\ audioFiles \in SUBSET Mp3Files
    /\ (~dirs["audio"] => audioFiles = {})
    /\ outDir = IF dirs["output"] THEN OldItems ELSE {}
    /\ tempDirs = {}
    /\ success = 0
    /\ failures = << >>
    /\ warnings = << >>
    /\ used_clips = {}
    /\ temp_files = {}
    /\ audio_path = NoPath
    /\ i = 0
    /\ started = << >>
    /\ audio_duration = 0
    /\ gpos = 0
    /\ video_files = << >>
    /\ selected = << >>
    /\ total_dur = 0
    /\ idx = 0
    /\ attempt = 0
    /\ sleeps = 0
    /\ probeStatus = "idle"
    /\ probeValue = 0
    /\ exitCode = -1

\* _validate_directories: every required directory exists.
ValidateDirectories(d) == \A n \in RequiredDirs : d[n]

\* A handler that reports the error and lets the process end normally.
FatalSilent ==
    /\ pc' = "done"
    /\ exitCode' = 0

\* The except clause of __main__: any exception ends the process with 1.
Fatal ==
    /\ pc' = "done"
    /\ exitCode' = 1

\* VideoGenerator(...): __init__ and its directory validation.
Construct ==
    /\ pc = "construct"
    /\ IF ValidateDirectories(dirs)
       THEN pc' = "clean" /\ exitCode' = exitCode
       ELSE Fatal
    /\ UNCHANGED << envVars, outDir, tempDirs, logVars, audio_path, i, started,
                    audio_duration, gpos, packVars, probeVars >>

\* ------------------------------------------------------ _clean_output

\* A cleanup that removes files and leaves the subdirectories.
DeletableFilesOnly(item) == item.kind = "file"

\* The entries _clean_output tries to remove: files and directories.
Deletable(item) == item.kind \in {"file", "dir"}

DeleteWarning(item) == [kind |-> "delete", name |-> item.name]

\* The warnings of one pass over `listing` when the removals of `failed` raised.
RECURSIVE CleanWarnings(_, _)
CleanWarnings(listing, failed) ==
    IF listing = << >> THEN << >>
    ELSE (IF Head(listing) \in failed THEN << DeleteWarning(Head(listing)) >> ELSE << >>)
            \o CleanWarnings(Tail(listing), failed)

\* What is left of the directory when the removals of `failed` raised.
AfterClean(dir, failed) == { item \in dir : ~Deletable(item) \/ item \in failed }

\* generate_all, first step: _clean_output().  Each removal may raise; the
\* exception is caught and recorded as a warning.
CleanOutput ==
    /\ pc = "clean"
    /\ \E failed \in SUBSET { item \in outDir : Deletable(item) } :
         /\ outDir' = AfterClean(outDir, failed)
         /\ warnings' = warnings \o CleanWarnings(OutputDirListing, failed)
    /\ pc' = "discover"
    /\ UNCHANGED << envVars, tempDirs, success, failures, used_clips, temp_files,
                    audio_path, i, started, audio_duration, gpos, packVars,
                    probeVars, exitCode >>

\* generate_all: the audio file is chosen, or the run ends for want of one.
ChooseAudio ==
    /\ pc = "discover"
    /\ IF audioFiles = {}
       THEN Fatal /\ UNCHANGED << audio_path, i >>
       ELSE /\ audio_path' \in audioFiles
            /\ i' = 1
            /\ pc' = "loop"
            /\ exitCode' = exitCode
    /\ UNCHANGED << envVars, outDir, tempDirs, logVars, started, audio_duration,
                    gpos, packVars, probeVars >>

\* ------------------------------------------------ _generate_single

\* generate_all's loop calls _generate_single(audio_path, i); the call
\* creates the task's temporary directory and records its name.
StartTask ==
    /\ pc = "loop"
    /\ i <= NumVideos
    /\ started' = Append(started, i)
    /\ tempDirs' = tempDirs \cup {i}
    /\ temp_files' = temp_files \cup {i}
    /\ audio_duration' = 0
    /\ gpos' = 0
    /\ video_files' = << >>
    /\ selected' = << >>
    /\ total_dur' = 0
    /\ idx' = 0
    /\ pc' = "probe_audio"
    /\ UNCHANGED << envVars, outDir, success, failures, warnings, used_clips,
                    audio_path, i, probeVars, exitCode >>

\* _generate_single returns: its locals are gone.
Return ==
    /\ audio_duration' = 0
    /\ gpos' = 0
    /\ video_files' = << >>
    /\ selected' = << >>
    /\ total_dur' = 0
    /\ idx' = 0

\* A cleanup on the success path only: a failed task's directory stays.
TempKeptOnFailure(d, t, ok) == IF ok THEN d \ {t} ELSE d

\* The temporary directories left once task t has run its finally clause.
TempAfterTask(d, t, ok) == d \ {t}

\* A failure that ends the loop: no later task is started.
TaskFailStops(reason) ==
    /\ failures' = Append(failures, [task |-> i, reason |-> reason, temp_dir |-> i])
    /\ tempDirs' = TempAfterTask(tempDirs, i, FALSE)
    /\ i' = NumVideos + 1
    /\ pc' = "loop"
    /\ Return

\* The except and finally clauses of _generate_single: the failure is
\* recorded, the temporary directory removed, and the call returns.
TaskFail(reason) ==
    /\ failures' = Append(failures, [task |-> i, reason |-> reason, temp_dir |-> i])
    /\ tempDirs' = TempAfterTask(tempDirs, i, FALSE)
    /\ i' = i + 1
    /\ pc' = "loop"
    /\ Return

ProbeReset ==
    /\ attempt' = 0
    /\ sleeps' = 0
    /\ probeStatus' = "idle"
    /\ probeValue' = 0

\* ---------------------------------------------- _get_media_duration

\* The durations ffprobe may report at this point of the task.
Durations == IF pc = "probe_audio" THEN 0..MaxTarget ELSE 1..MaxDur

\* An off-by-one in the retry loop: one attempt too many.
LastAttemptLate(made) == made = max_retries

\* attempt == max_retries - 1, with `made` the attempts made before this one.
LastAttempt(made) == made = max_retries - 1

\* The file the clip scan is at.
ScanFile == VideoDirListing[gpos]

Probing ==
    \/ pc = "probe_audio"
    \/ pc = "probe_clips" /\ gpos <= Len(VideoDirListing) /\ IsVideo(ScanFile)

\* One pass of the retry loop of _get_media_duration: ffprobe runs and
\*  - prints a duration: the function returns it;
\*  - exits non-zero (CalledProcessError): RuntimeError on the last
\*    attempt, else the backoff sleep and the next attempt;
\*  - prints something float() rejects: the ValueError is not caught here.
ProbeAttempt ==
    /\ Probing
    /\ probeStatus \in {"idle", "running"}
    /\ attempt' = attempt + 1
    /\ \/ \E d \in Durations :
             /\ probeStatus' = "ok"
             /\ probeValue' = d
             /\ sleeps' = sleeps
       \/ /\ IF LastAttempt(attempt)
             THEN probeStatus' = "RuntimeError" /\ sleeps' = sleeps
             ELSE probeStatus' = "running" /\ sleeps' = sleeps + 1
          /\ probeValue' = probeValue
       \/ /\ probeStatus' = "ValueError"
          /\ probeValue' = probeValue
          /\ sleeps' = sleeps
    /\ UNCHANGED << pc, envVars, outDir, tempDirs, logVars, audio_path, i, started,
                    audio_duration, gpos, packVars, exitCode >>

ProbeRaised == probeStatus \in {"RuntimeError", "ValueError"}

\* Step 1 of _generate_single: the audio duration is the target.
AudioProbed ==
    /\ pc = "probe_audio"
    /\ probeStatus = "ok"
    /\ audio_duration' = probeValue
    /\ gpos' = 1
    /\ pc' = "probe_clips"
    /\ ProbeReset
    /\ UNCHANGED << envVars, outDir, tempDirs, logVars, audio_path, i, started,
                    packVars, exitCode >>

\* Step 1 raised: the task fails.
AudioProbeFailed ==
    /\ pc = "probe_audio"
    /\ ProbeRaised
    /\ TaskFail(probeStatus)
    /\ ProbeReset
    /\ UNCHANGED << envVars, outDir, success, warnings, used_clips, temp_files,
                    audio_path, started, exitCode >>

SkipWarning(f) == [kind |-> "skip", name |-> f.name]

\* Step 2, an entry the suffix filter rejects.
ScanOther ==
    /\ pc = "probe_clips"
    /\ gpos <= Len(VideoDirListing)
    /\ ~IsVideo(ScanFile)
    /\ gpos' = gpos + 1
    /\ UNCHANGED << pc, envVars, outDir, tempDirs, logVars, audio_path, i, started,
                    audio_duration, packVars, probeVars, exitCode >>

\* Step 2, a clip whose probe returned: it joins the pool.
ClipProbed ==
    /\ pc = "probe_clips"
    /\ probeStatus = "ok"
    /\ video_files' = Append(video_files, [video |-> ScanFile.name, dur |-> probeValue])
    /\ gpos' = gpos + 1
    /\ ProbeReset
    /\ UNCHANGED << pc, envVars, outDir, tempDirs, logVars, audio_path, i, started,
                    audio_duration, selected, total_dur, idx, exitCode >>

\* Step 2, a clip whose probe raised: a warning, and the scan goes on.
ClipSkipped ==
    /\ pc = "probe_clips"
    /\ ProbeRaised
    /\ warnings' = Append(warnings, SkipWarning(ScanFile))
    /\ gpos' = gpos + 1
    /\ ProbeReset
    /\ UNCHANGED << pc, envVars, outDir, tempDirs, success, failures, used_clips,
                    temp_files, audio_path, i, started, audio_duration, packVars,
                    exitCode >>

\* A missing check: the pool is never found empty.
PoolNeverEmpty(pool) == FALSE

\* `if not video_files`
PoolEmpty(pool) == pool = << >>

\* `if not video_files: raise RuntimeError(...)`
NoClips ==
    /\ pc = "probe_clips"
    /\ gpos > Len(VideoDirListing)
    /\ PoolEmpty(video_files)
    /\ TaskFail("NoClips")
    /\ UNCHANGED << envVars, outDir, success, warnings, used_clips, temp_files,
                    audio_path, started, probeVars, exitCode >>

\* random.shuffle(video_files); selected = []; total_dur = 0.0
Shuffle ==
    /\ pc = "probe_clips"
    /\ gpos > Len(VideoDirListing)
    /\ ~PoolEmpty(video_files)
    /\ video_files' \in Orders(video_files)
    /\ selected' = << >>
    /\ total_dur' = 0
    /\ idx' = 1
    /\ pc' = "select"
    /\ UNCHANGED << envVars, outDir, tempDirs, logVars, audio_path, i, started,
                    audio_duration, gpos, probeVars, exitCode >>

\* ------------------------------------------- the selection loop

\* A plan entry used whole (the code appends the bare path) ...
FullEntry(video) == [video |-> video, trimmed |-> FALSE, cut |-> 0]
\* A slip in the cut branch: the bare path is appended, the cut is lost.
CutEntryWhole(video, cut_duration) == FullEntry(video)

\* ... and one cut short (the code appends the pair (video, cut_duration)).
CutEntry(video, cut_duration) == [video |-> video, trimmed |-> TRUE, cut |-> cut_duration]

\* `if total_dur >= audio_duration: break`
TargetReached(total, target) == total >= target

\* A slip in the comparison: a clip that fits exactly is sent to the cut branch.
FitsStrict(total, dur, target) == total + dur < target

\* `if total_dur + dur <= audio_duration`
Fits(total, dur, target) == total + dur <= target

\* A slip in the cut: the clip is cut to the target, not to what is missing.
CutToTarget(target, total) == target

\* `cut_duration = audio_duration - total_dur`
CutDuration(target, total) == target - total

\* log['used_clips'] after a clip was appended whole.
UsedAfterFull(used, video) == used \cup {video}

\* log['used_clips'] after a clip was appended cut: the branch adds nothing.
UsedAfterCut(used, video) == used

InLoop ==
    /\ pc = "select"
    /\ idx <= Len(video_files)

\* The for loop has no entry left.
SelectEnd ==
    /\ pc = "select"
    /\ idx > Len(video_files)
    /\ pc' = "concat"
    /\ UNCHANGED << envVars, outDir, tempDirs, logVars, audio_path, i, started,
                    audio_duration, gpos, packVars, probeVars, exitCode >>

\* The target is reached: break.
SelectBreak ==
    /\ InLoop
    /\ TargetReached(total_dur, audio_duration)
    /\ pc' = "concat"
    /\ UNCHANGED << envVars, outDir, tempDirs, logVars, audio_path, i, started,
                    audio_duration, gpos, packVars, probeVars, exitCode >>

\* The clip fits: it is appended whole.
SelectFull ==
    /\ InLoop
    /\ ~TargetReached(total_dur, audio_duration)
    /\ Fits(total_dur, video_files[idx].dur, audio_duration)
    /\ selected' = Append(selected, FullEntry(video_files[idx].video))
    /\ total_dur' = total_dur + video_files[idx].dur
    /\ used_clips' = UsedAfterFull(used_clips, video_files[idx].video)
    /\ idx' = idx + 1
    /\ UNCHANGED << pc, envVars, outDir, tempDirs, success, failures, warnings,
                    temp_files, audio_path, i, started, audio_duration, gpos,
                    video_files, probeVars, exitCode >>

\* The clip does not fit: it is appended cut to what is missing; break.
SelectTrim ==
    /\ InLoop
    /\ ~TargetReached(total_dur, audio_duration)
    /\ ~Fits(total_dur, video_files[idx].dur, audio_duration)
    /\ selected' = Append(selected,
                          CutEntry(video_files[idx].video,
                                   CutDuration(audio_duration, total_dur)))
    /\ total_dur' = audio_duration
    /\ used_clips' = UsedAfterCut(used_clips, video_files[idx].video)
    /\ pc' = "concat"
    /\ UNCHANGED << envVars, outDir, tempDirs, success, failures, warnings,
                    temp_files, audio_path, i, started, audio_duration, gpos,
                    video_files, idx, probeVars, exitCode >>

\* ------------------------------------------------ assembly

\* Steps 4 and 5: the concat list is written and ffmpeg concatenates; a
\* non-zero exit raises.
Concat ==
    /\ pc = "concat"
    /\ \/ /\ pc' = "mux"
          /\ UNCHANGED << failures, tempDirs, i, audio_duration, gpos, packVars >>
       \/ TaskFail("ConcatError")
    /\ UNCHANGED << envVars, outDir, success, warnings, used_clips, temp_files,
                    audio_path, started, probeVars, exitCode >>

\* Step 6: ffmpeg writes output_<task_num>.mp4.  On success the task is
\* counted; on a non-zero exit the file may or may not have been created.
Mux ==
    /\ pc = "mux"
    /\ \/ /\ outDir' = outDir \cup {OutputFile(i)}
          /\ success' = success + 1
          /\ tempDirs' = TempAfterTask(tempDirs, i, TRUE)
          /\ i' = i + 1
          /\ pc' = "loop"
          /\ Return
          /\ UNCHANGED failures
       \/ /\ \E partial \in BOOLEAN :
               outDir' = IF partial THEN outDir \cup {OutputFile(i)} ELSE outDir
          /\ TaskFail("MuxError")
          /\ UNCHANGED success
    /\ UNCHANGED << envVars, warnings, used_clips, temp_files, audio_path, started,
                    probeVars, exitCode >>

\* The loop of generate_all is over: the report, and the process ends.
Report ==
    /\ pc = "loop"
    /\ i > NumVideos
    /\ pc' = "done"
    /\ exitCode' = 0
    /\ UNCHANGED << envVars, outDir, tempDirs, logVars, audio_path, i, started,
                    audio_duration, gpos, packVars, probeVars >>

Next ==
    \/ Construct
    \/ CleanOutput
    \/ ChooseAudio
    \/ StartTask
    \/ ProbeAttempt
    \/ AudioProbed
    \/ AudioProbeFailed
    \/ ScanOther
    \/ ClipProbed
    \/ ClipSkipped
    \/ NoClips
    \/ Shuffle
    \/ SelectEnd
    \/ SelectBreak
    \/ SelectFull
    \/ SelectTrim
    \/ Concat
    \/ Mux
    \/ Report

Spec == Init /\ [][Next]_vars

\* ------------------------- the selection loop on its own (SpecPack)

PackNames == << "a.MP4", "b.mov", "c.mkv", "d.avi", "e.mp4" >>

PackEntries ==
    [video : { PackNames[k] : k \in 1..PackClips }, dur : 1..PackMaxDur]

\* Every shuffled pool: a non-empty sequence of clips with distinct names.
PackPools ==
    UNION { { s \in [1..n -> PackEntries] :
                \A j, k \in 1..n : j # k => s[j].video # s[k].video } :
            n \in 1..PackClips }

\* Task 1 of a run at the head of the selection loop, for any shuffled pool
\* and any target.
PackInit ==
    /\ pc = "select"
    /\ dirs = [n \in RequiredDirs |-> TRUE]
    /\ audioFiles = Mp3Files
    /\ outDir = AfterClean(OldItems, {})
    /\ tempDirs = {1}
    /\ success = 0
    /\ failures = << >>
    /\ warnings = << >>
    /\ used_clips = {}
    /\ temp_files = {1}
    /\ audio_path \in Mp3Files
    /\ i = 1
    /\ started = << 1 >>
    /\ audio_duration \in 0..PackMaxTarget
    /\ gpos = Len(VideoDirListing) + 1
    /\ video_files \in PackPools
    /\ selected = << >>
    /\ total_dur = 0
    /\ idx = 1
    /\ attempt = 0
    /\ sleeps = 0
    /\ probeStatus = "idle"
    /\ probeValue = 0
    /\ exitCode = -1

PackNext ==
    \/ SelectEnd
    \/ SelectBreak
    \/ SelectFull
    \/ SelectTrim

SpecPack == PackInit /\ [][PackNext]_vars

\* =================================================================
\* Properties
\* =================================================================

\* The probed duration of a clip of the pool.
NaturalDur(video) ==
    (CHOOSE e \in Range(video_files) : e.video = video).dur

\* The duration a plan entry contributes.
UsedDuration(entry) ==
    IF entry.trimmed THEN entry.cut ELSE NaturalDur(entry.video)

UsedSum == SumSeq([k \in DOMAIN selected |-> UsedDuration(selected[k])])

PoolTotal == SumSeq([k \in DOMAIN video_files |-> video_files[k].dur])

\* The selection loop has ended and the plan is complete.
PlanBuilt == pc = "concat"

\* C1: for a non-empty pool of positive durations, any shuffle order and any
\* target > 0, the finished plan's used durations sum to
\* min(target, pool total); when the pool total is below the target the plan
\* holds every clip, in order, at full duration.
C1_PlanSum ==
    (PlanBuilt /\ audio_duration > 0) =>
        /\ UsedSum = Min(audio_duration, PoolTotal)
        /\ PoolTotal < audio_duration =>
              /\ Len(selected) = Len(video_files)
              /\ \A k \in DOMAIN selected :
                    /\ selected[k].video = video_files[k].video
                    /\ ~selected[k].trimmed

\* C1's case: two clips taken whole and a third cut to reach the target.
C1_Witness ==
    /\ PlanBuilt
    /\ Len(selected) = 3
    /\ ~selected[1].trimmed
    /\ ~selected[2].trimmed
    /\ selected[3].trimmed
    /\ UsedSum = audio_duration

\* C2: in every plan the loop builds, at most one entry is cut, it is the
\* last entry (nothing is appended after it), its use-duration is strictly
\* between 0 and the clip's natural duration; the other entries are whole.
C2_TrimLast ==
    /\ \A k \in DOMAIN selected :
          selected[k].trimmed =>
             /\ k = Len(selected)
             /\ pc # "select"
             /\ selected[k].cut > 0
             /\ selected[k].cut < NaturalDur(selected[k].video)
    /\ Cardinality({ k \in DOMAIN selected : selected[k].trimmed }) <= 1
    /\ \A k \in DOMAIN selected :
          ~selected[k].trimmed => UsedDuration(selected[k]) = video_files[k].dur

\* C2's case: a plan of several entries whose last one is cut.
C2_Witness ==
    /\ PlanBuilt
    /\ Len(selected) >= 2
    /\ selected[Len(selected)].trimmed
    /\ ~selected[1].trimmed

\* Every clip of the pool is longer than the target.
AllLonger == \A k \in DOMAIN video_files : video_files[k].dur > audio_duration

InTask == pc \in {"probe_audio", "probe_clips", "select", "concat", "mux"}

ScanDone == gpos > Len(VideoDirListing)

\* The scan of the video directory is over and no clip was usable.
PoolFoundEmpty == pc = "probe_clips" /\ ScanDone /\ video_files = << >>

\* The step taken from there: the no-clips failure, and no plan.
NoClipsStep ==
    PoolFoundEmpty =>
        /\ failures' = Append(failures, [task |-> i, reason |-> "NoClips", temp_dir |-> i])
        /\ success' = success
        /\ selected' = << >>
        /\ pc' = "loop"

\* The selection loop and the assembly never run on an empty pool, and with
\* a target > 0 the plan handed to concatenation is not empty.
PlanNotEmpty ==
    /\ pc \in {"select", "concat", "mux"} => video_files # << >>
    /\ (pc = "concat" /\ audio_duration > 0) => selected # << >>

\* C3: a task whose usable pool is empty fails with the no-clips error (a
\* failure record, no plan built, assembly never entered with an empty
\* pool); with a non-empty pool and a target > 0 the plan handed to
\* concatenation is not empty.
C3_EmptyPool ==
    /\ []PlanNotEmpty
    /\ [][NoClipsStep]_vars

\* C3's case: every clip probe of task 1 failed, and the task ended on the
\* no-clips error.
C3_Witness ==
    /\ pc = "loop"
    /\ started = << 1 >>
    /\ failures = << [task |-> 1, reason |-> "NoClips", temp_dir |-> 1] >>
    /\ Len(warnings) >= 2
    /\ warnings[Len(warnings)].kind = "skip"
    /\ warnings[Len(warnings) - 1].kind = "skip"

\* C4: after setup the tasks 1..num_videos are started once each, in
\* increasing order, each after the previous one has ended, whatever errors
\* the earlier ones hit; every task that has ended is counted once, as a
\* success or as one failure record carrying its index; at the end
\* success + failures = num_videos.
C4_TaskLoop ==
    /\ \A k \in DOMAIN started : started[k] = k
    /\ Len(started) <= NumVideos
    /\ InTask => /\ i = Len(started)
                 /\ success + Len(failures) = Len(started) - 1
    /\ pc = "loop" => /\ i = Len(started) + 1
                      /\ success + Len(failures) = Len(started)
    /\ \A k \in DOMAIN failures : failures[k].task \in DOMAIN started
    /\ \A j, k \in DOMAIN failures : j < k => failures[j].task < failures[k].task
    /\ (pc = "done" /\ exitCode = 0) =>
          /\ Len(started) = NumVideos
          /\ success + Len(failures) = NumVideos

\* C4's case: task 1 failed, task 2 then ran and succeeded, the loop ended.
C4_Witness ==
    /\ pc = "done"
    /\ Len(failures) = 1
    /\ failures[1].task = 1
    /\ success = NumVideos - 1
    /\ OutputFile(NumVideos) \in outDir

\* --- C5

\* The retry loop: at most max_retries attempts; a backoff after every
\* failed attempt but the last; the return at the first success.
ProbeDiscipline ==
    /\ attempt <= max_retries
    /\ probeStatus = "idle" => attempt = 0 /\ sleeps = 0
    /\ probeStatus = "running" => attempt \in 1..(max_retries - 1) /\ sleeps = attempt
    /\ probeStatus = "ok" => attempt \in 1..max_retries /\ sleeps = attempt - 1
    /\ probeStatus = "RuntimeError" => attempt = max_retries /\ sleeps = max_retries - 1

Exhausted == probeStatus = "RuntimeError"

\* The failure record the running task would leave.
FailureOf(reason) == [task |-> i, reason |-> reason, temp_dir |-> i]

\* The running task is recorded as failed and the loop goes on to the next.
FailsThisTask(reason) ==
    /\ failures' = Append(failures, FailureOf(reason))
    /\ success' = success
    /\ pc' = "loop"
    /\ i' = i + 1
    /\ exitCode' = exitCode

\* No attempt follows a success.
StopsAtSuccess == probeStatus = "ok" => attempt' = 0

\* C5 as stated: the retry discipline, and exhausting the retries fails the
\* task in which it happens (and only that task), for any probe.
ExhaustionFatalStep == Exhausted => FailsThisTask("RuntimeError")

C5_Original ==
    /\ []ProbeDiscipline
    /\ [][StopsAtSuccess /\ ExhaustionFatalStep]_vars

\* Exhausting the retries on the audio probe fails the task, and only it;
\* on a clip probe it skips the clip with a warning and the task goes on.
ExhaustionStep ==
    /\ (Exhausted /\ pc = "probe_audio") => FailsThisTask("RuntimeError")
    /\ (Exhausted /\ pc = "probe_clips") =>
          /\ warnings' = Append(warnings, SkipWarning(ScanFile))
          /\ failures' = failures
          /\ video_files' = video_files
          /\ pc' = "probe_clips"
          /\ gpos' = gpos + 1

\* C5 (amended): at most 3 attempts per probe, the return at the first
\* success, the backoff only between failed attempts, an error after 3
\* failed attempts; exhausting the retries on the audio probe fails that
\* task only (the loop goes on), exhausting them on a clip probe skips the
\* clip with a warning and does not by itself fail the task.
C5_ProbeRetry ==
    /\ []ProbeDiscipline
    /\ [][StopsAtSuccess /\ ExhaustionStep]_vars

\* C5's case: task 1 failed on the exhausted audio probe, task 2 still ran,
\* skipped a clip whose probe failed, and succeeded.
C5_Witness ==
    /\ pc = "done"
    /\ Len(failures) = 1
    /\ failures[1] = [task |-> 1, reason |-> "RuntimeError", temp_dir |-> 1]
    /\ success = NumVideos - 1
    /\ warnings # << >>
    /\ warnings[Len(warnings)].kind = "skip"

\* --- C6

SetupFails == (\E n \in RequiredDirs : ~dirs[n]) \/ audioFiles = {}

\* C6: the process exits with 1 exactly when setup fails (a required
\* directory missing, no audio file), and then no task was started; in every
\* other run it goes through the whole task loop and exits with 0, however
\* many tasks failed.  Until it has exited the program is never stuck.
C6_ExitCode ==
    /\ pc # "done" => exitCode = -1 /\ ENABLED Next
    /\ pc = "done" =>
          /\ exitCode \in {0, 1}
          /\ exitCode = 1 <=> SetupFails
          /\ exitCode = 1 => started = << >> /\ temp_files = {}
          /\ exitCode = 0 => /\ Len(started) = NumVideos
                             /\ success + Len(failures) = NumVideos
    /\ SetupFails => started = << >>

\* C6's case: every task of the run failed and the process exits with 0.
C6_Witness ==
    /\ pc = "done"
    /\ exitCode = 0
    /\ Len(failures) = NumVideos
    /\ success = 0

\* --- C7

\* _clean_output has run (it runs in every run that passes validation).
CleanDone == pc \notin {"construct", "clean"} /\ \A n \in RequiredDirs : dirs[n]

\* C7 as stated: when the first task starts nothing that was in the output
\* directory before the run is still there, and the directory then only
\* gains output files of started tasks.
C7_Original ==
    /\ started # << >> => outDir \cap OldItems = {}
    /\ \A item \in outDir \ OldItems :
          \E t \in Range(started) : item = OutputFile(t)

\* C7 (amended): once cleanup has run, hence when the first task starts, an
\* entry that was in the output directory before the run is still there
\* only if its removal raised, and then a warning naming it is recorded, or
\* if it is neither a file nor a directory; the only entries the directory
\* gains are the files output_<i>.mp4 of started tasks i.
C7_OutputDir ==
    /\ CleanDone =>
          \A item \in outDir \cap OldItems :
             \/ item.kind \notin {"file", "dir"}
             \/ \E k \in DOMAIN warnings :
                   warnings[k] = [kind |-> "delete", name |-> item.name]
    /\ ~CleanDone => outDir \subseteq OldItems
    /\ \A item \in outDir \ OldItems :
          \E t \in Range(started) : item = OutputFile(t)

\* C7's case: a removal failed during cleanup, the entry is still there
\* while tasks run, and a task has written its output file.
C7_Witness ==
    /\ Len(started) = 2
    /\ \E item \in outDir \cap OldItems : item.kind = "dir"
    /\ OutputFile(1) \in outDir

\* --- C9

\* C9 as stated, second half: once a task has built its plan, the used-clips
\* record holds the name of every clip of the plan, the cut one included.
\* (The first half, that the record never loses a name, holds.)
C9_PlanRecorded ==
    pc \in {"concat", "mux"} =>
        \A k \in DOMAIN selected : selected[k].video \in used_clips

\* --- C10

\* C10: each task has a temporary directory of its own, which exists while
\* the task runs and is removed when the task ends, whatever the outcome:
\* when a task starts and when the run ends no earlier task's directory
\* exists.
C10_TempDirs ==
    /\ InTask => tempDirs = {i}
    /\ ~InTask => tempDirs = {}
    /\ temp_files = Range(started)
    /\ Cardinality(temp_files) = Len(started)

\* C10's case: task 1 failed in muxing, task 2 on an empty pool, and no
\* temporary directory is left.
C10_Witness ==
    /\ pc = "done"
    /\ Len(failures) = 2
    /\ failures[1].reason = "MuxError"
    /\ failures[2].reason = "NoClips"
    /\ tempDirs = {}

====
